---- MODULE Spec2Model ----
(***************************************************************************)
(* NanoTask (src/NanoTask.hpp): a Task is a periodic timer around a bound  *)
(* callable, a TaskManager is an unordered_map from string keys to owned   *)
(* Tasks.  Time is the integral nanosecond count CurrNanoTimeStamp()       *)
(* returns.  Every member function is one action; the pure part of each    *)
(* is an operator of the same name.  The caller reaches a Task through its *)
(* unique_ptr only, so a Task the registry owns is touched by the registry *)
(* alone.                                                                  *)
(***************************************************************************)
EXTENDS Integers, Sequences, FiniteSets, TLC

VARIABLES
    clock,      \* what CurrNanoTimeStamp() returns now (nanoseconds)
    heap,       \* address -> the Task object stored there (or NoTask)
    handles,    \* the caller's std::unique_ptr<Task> variables: name -> address or NULL
    mAllTasks,  \* TaskManager::mAllTasks: key -> address or NULL
    addOrder,   \* history: the keys of mAllTasks in the order they were inserted
    hist,       \* history of a Task: arming time, who armed, fires since, last deadline computation
    last,       \* history: the operation that produced this state and what it did
    loop        \* the caller's polling loop, when it runs one: period and end

vars == <<clock, heap, handles, mAllTasks, addOrder, hist, last, loop>>

----------------------------------------------------------------------------
(* Bounds of the model *)

\* mAllTasks holds at most MaxEntries entries.
MaxEntries == 2
\* A caller that polls a Task itself stops once the callable has been invoked
\* MaxFires times since the Task was armed.
MaxFires == 2

----------------------------------------------------------------------------
(* Program constants *)

\* nullptr; (unsigned long long)nullptr is 0
NULL == 0
\* std::chrono::seconds -> std::chrono::nanoseconds
NanosPerSec == 1000000000
\* std::chrono::milliseconds -> std::chrono::nanoseconds
NanosPerMilli == 1000000

\* The addresses std::make_unique<Task> returns.
Addrs == {1, 2}
Ptrs == Addrs \cup {NULL}
\* The caller's std::unique_ptr<Task> variables.
Handles == {"tsk1"}

\* The callables a caller binds: one that returns, one that throws.
Callables == {"print", "throw"}
\* The exception a callable throws when invoked ("" when it returns).
Raises(fn) == IF fn = "throw" THEN "boom" ELSE ""

\* The instants the clock is read at when one Task is polled on its own.
ClockReadings == {0, 1, 2, 3, NanosPerMilli, NanosPerMilli + 1, NanosPerSec}
\* The instants the clock is read at when a TaskManager is driven.
SweepReadings == {0, NanosPerSec}

\* Arguments of the interval setters, per duration type.
Units == {"secs", "millis", "nanos", "chrono"}
IntervalArgs(unit) ==
    CASE unit = "secs"   -> {0, 1}
      [] unit = "millis" -> {0, 1}
      [] unit = "nanos"  -> {0, 1, 2}
      [] unit = "chrono" -> {-1, 0, 1, NanosPerMilli}

----------------------------------------------------------------------------
(* std::to_string(unsigned long long) *)

Digit(d) ==
    CASE d = 0 -> "0" [] d = 1 -> "1" [] d = 2 -> "2" [] d = 3 -> "3"
      [] d = 4 -> "4" [] d = 5 -> "5" [] d = 6 -> "6" [] d = 7 -> "7"
      [] d = 8 -> "8" [] d = 9 -> "9"

RECURSIVE to_string(_)
to_string(n) ==
    IF n < 10 THEN Digit(n) ELSE to_string(n \div 10) \o Digit(n % 10)

\* Keys a caller passes explicitly: a name, and a string of digits.
UserKeys == {"1Sec", "1"}
\* Every key Remove may be called with.
AllKeys == UserKeys \cup {to_string(p) : p \in Ptrs}

----------------------------------------------------------------------------
(* class Task *)

\* The storage of an address that holds no Task.
NoTask ==
    [live |-> FALSE, mHasSetInterval |-> FALSE, mTask |-> "",
     mNextExecStamp |-> 0, mNanoInterval |-> 0]

\* std::chrono::duration_cast<std::chrono::nanoseconds>(intervl).  The
\* arguments drawn stay in the range where the 64-bit count does not overflow.
duration_cast(unit, n) ==
    CASE unit = "secs"   -> n * NanosPerSec
      [] unit = "millis" -> n * NanosPerMilli
      [] unit = "nanos"  -> n
      [] unit = "chrono" -> n

\* Variant: the deadline is the interval alone, the clock is not added.
OnIntervalChanged_NoClock(t, now) ==
    [t EXCEPT !.mNextExecStamp = t.mNanoInterval]

OnIntervalChanged(t, now) ==
    [t EXCEPT !.mNextExecStamp = now + t.mNanoInterval]

setIntervalChronoNanos(t, intervl, now) ==
    OnIntervalChanged(
        [t EXCEPT !.mNanoInterval = intervl, !.mHasSetInterval = TRUE], now)

setInterval(t, unit, n, now) ==
    setIntervalChronoNanos(t, duration_cast(unit, n), now)

setIntervalSecs(t, secs, now) == setInterval(t, "secs", secs, now)

setIntervalMillis(t, millis, now) == setInterval(t, "millis", millis, now)

setIntervalNanos(t, nanos, now) == setInterval(t, "nanos", nanos, now)

\* Task::Task(std::chrono::duration<DurType> itrvl, func, args...): the
\* duration's period is the default one, seconds.
Task(itrvl, func, now) ==
    setInterval(
        [live |-> TRUE, mHasSetInterval |-> FALSE, mTask |-> func,
         mNextExecStamp |-> 0, mNanoInterval |-> 0],
        "secs", itrvl, now)

\* Variant: the armed flag is not looked at.
CanExecuteTask_IgnoreArmed(t, currTime) ==
    IF t.mNextExecStamp > currTime THEN [can |-> FALSE, task |-> t]
    ELSE [can |-> TRUE,
          task |-> [t EXCEPT !.mNextExecStamp = currTime + t.mNanoInterval]]

\* Variant: the deadline is moved to now plus the interval before it is
\* compared, so a Task that is not yet due is pushed back by the poll.
CanExecuteTask_PushBack(t, currTime) ==
    IF t.mHasSetInterval = FALSE THEN [can |-> FALSE, task |-> t]
    ELSE IF t.mNextExecStamp > currTime
         THEN [can |-> FALSE,
               task |-> [t EXCEPT !.mNextExecStamp = currTime + t.mNanoInterval]]
         ELSE [can |-> TRUE,
               task |-> [t EXCEPT !.mNextExecStamp = currTime + t.mNanoInterval]]

\* Variant: a Task whose deadline equals the clock reading is not yet due.
CanExecuteTask_Strict(t, currTime) ==
    IF t.mHasSetInterval = FALSE THEN [can |-> FALSE, task |-> t]
    ELSE IF t.mNextExecStamp >= currTime THEN [can |-> FALSE, task |-> t]
    ELSE [can |-> TRUE,
          task |-> [t EXCEPT !.mNextExecStamp = currTime + t.mNanoInterval]]

\* Variant: the next deadline is counted from the missed deadline.
CanExecuteTask_CatchUp(t, currTime) ==
    IF t.mHasSetInterval = FALSE THEN [can |-> FALSE, task |-> t]
    ELSE IF t.mNextExecStamp > currTime THEN [can |-> FALSE, task |-> t]
    ELSE [can |-> TRUE,
          task |-> [t EXCEPT !.mNextExecStamp = @ + t.mNanoInterval]]

\* Task::CanExecuteTask: the answer and the Task afterwards.
CanExecuteTask(t, currTime) ==
    IF t.mHasSetInterval = FALSE THEN [can |-> FALSE, task |-> t]
    ELSE IF t.mNextExecStamp > currTime THEN [can |-> FALSE, task |-> t]
    ELSE [can |-> TRUE,
          task |-> [t EXCEPT !.mNextExecStamp = currTime + t.mNanoInterval]]

\* Variant: the deadline is advanced only when mTask has returned.
TaskUpdate_AdvanceAfter(t, now) ==
    LET c == CanExecuteTask(t, now) IN
    IF c.can = FALSE THEN [task |-> c.task, invoked |-> 0, error |-> ""]
    ELSE IF Raises(t.mTask) # ""
         THEN [task |-> t, invoked |-> 1, error |-> Raises(t.mTask)]
         ELSE [task |-> c.task, invoked |-> 1, error |-> ""]

\* Task::Update: the Task afterwards, how often mTask was invoked, and the
\* exception that left the call ("" when it returned).
TaskUpdate(t, now) ==
    LET c == CanExecuteTask(t, now) IN
    IF c.can = FALSE THEN [task |-> c.task, invoked |-> 0, error |-> ""]
    ELSE [task |-> c.task, invoked |-> 1, error |-> Raises(c.task.mTask)]

----------------------------------------------------------------------------
(* class TaskManager *)

\* The map m with the entry uid -> p added.
Insert(m, uid, p) ==
    [k \in DOMAIN m \cup {uid} |-> IF k = uid THEN p ELSE m[k]]

\* The map m without the entry of uid.
Erase(m, uid) == [k \in DOMAIN m \ {uid} |-> m[k]]

\* Variant: the entry takes the Task's address and the caller's tsk keeps it.
Add_uid_ref_NoMove(m, uid, tsk) ==
    IF uid \in DOMAIN m THEN [map |-> m, tsk |-> tsk]
    ELSE [map |-> Insert(m, uid, tsk), tsk |-> tsk]

\* Variant: the entry is assigned without looking the key up first.
Add_uid_ref_Overwrite(m, uid, tsk) ==
    [map |-> Insert(m, uid, tsk), tsk |-> NULL]

\* TaskManager::Add(const std::string& uid, std::unique_ptr<Task>& tsk):
\* the map and the caller's tsk afterwards.
Add_uid_ref(m, uid, tsk) ==
    IF uid \in DOMAIN m THEN [map |-> m, tsk |-> tsk]
    ELSE [map |-> Insert(m, uid, tsk), tsk |-> NULL]

\* TaskManager::Add(std::unique_ptr<Task>& tsk)
Add_ref(m, tsk) == Add_uid_ref(m, to_string(tsk), tsk)

\* TaskManager::Add(const std::string& uid, std::unique_ptr<Task>&& _tsk)
Add_uid_rref(m, uid, tsk) == Add_uid_ref(m, uid, tsk)

\* TaskManager::Add(std::unique_ptr<Task>&& _tsk)
Add_rref(m, tsk) == Add_ref(m, tsk)

\* Variant: the entry's Task is destroyed and the key stays in the map.
Remove_KeepKey(m, uid) ==
    IF uid \notin DOMAIN m THEN m ELSE [m EXCEPT ![uid] = NULL]

\* Variant: the test for the key is inverted.
Remove_Inverted(m, uid) ==
    IF uid \in DOMAIN m THEN m ELSE Erase(m, uid)

\* Variant: every entry is erased, not only the one of uid.
Remove_Clear(m, uid) ==
    IF uid \notin DOMAIN m THEN m ELSE <<>>

\* TaskManager::Remove(const std::string& uid): the map afterwards.
Remove(m, uid) ==
    IF uid \notin DOMAIN m THEN m ELSE Erase(m, uid)

\* The range-for of TaskManager::Update from the i-th entry of the iteration
\* order on.  reads[i] is what the i-th Task::Update reads from the clock.
\* curr.second->Update() on an entry that holds nullptr dereferences a null
\* pointer: the process is killed there.
RECURSIVE UpdateFrom(_, _, _, _, _)
UpdateFrom(m, order, reads, i, acc) ==
    IF i > Len(order) THEN acc
    ELSE
        LET uid == order[i]
            p == m[uid]
        IN  IF p = NULL
            THEN [acc EXCEPT !.polled = Append(@, uid), !.outcome = "crash"]
            ELSE
                LET r == TaskUpdate(acc.heap[p], reads[i])
                    nxt == [acc EXCEPT
                              !.heap[p] = r.task,
                              !.polled = Append(@, uid),
                              !.fired = IF r.invoked = 1 THEN Append(@, p) ELSE @]
                IN  IF r.error # ""
                    THEN [nxt EXCEPT !.outcome = "raised", !.error = r.error]
                    ELSE UpdateFrom(m, order, reads, i + 1, nxt)

\* Variant: an exception a callable throws is caught, the sweep goes on, and
\* the exception is thrown again when the sweep is over.
RECURSIVE UpdateFrom_Catch(_, _, _, _, _)
UpdateFrom_Catch(m, order, reads, i, acc) ==
    IF i > Len(order) THEN acc
    ELSE
        LET uid == order[i]
            p == m[uid]
        IN  IF p = NULL
            THEN [acc EXCEPT !.polled = Append(@, uid), !.outcome = "crash"]
            ELSE
                LET r == TaskUpdate(acc.heap[p], reads[i])
                    nxt == [acc EXCEPT
                              !.heap[p] = r.task,
                              !.polled = Append(@, uid),
                              !.fired = IF r.invoked = 1 THEN Append(@, p) ELSE @,
                              !.outcome = IF r.error # "" THEN "raised" ELSE @,
                              !.error = IF r.error # "" THEN r.error ELSE @]
                IN  UpdateFrom_Catch(m, order, reads, i + 1, nxt)

Update_Catch(m, order, reads, hp) ==
    UpdateFrom_Catch(m, order, reads, 1,
                     [heap |-> hp, polled |-> <<>>, fired |-> <<>>,
                      outcome |-> "ok", error |-> ""])

\* TaskManager::Update, iterating mAllTasks in the given order.
Update(m, order, reads, hp) ==
    UpdateFrom(m, order, reads, 1,
               [heap |-> hp, polled |-> <<>>, fired |-> <<>>,
                outcome |-> "ok", error |-> ""])

----------------------------------------------------------------------------
(* Helpers of the actions *)

\* The orders an unordered_map of these keys may iterate in.
Orders(S) ==
    {s \in [1..Cardinality(S) -> S] :
        \A i, j \in 1..Cardinality(S) : i # j => s[i] # s[j]}

\* The non-decreasing sequences of n clock readings that start at t.
ReadsFrom(t, n) ==
    {s \in [1..n -> {r \in SweepReadings : r >= t}] :
        /\ n > 0 => s[1] = t
        /\ \A i \in 1..(n - 1) : s[i] <= s[i + 1]}

NoHist == [armedAt |-> 0, byCtor |-> FALSE, fires |-> 0, stamp |-> 0]

\* No polling loop is running.
NoLoop ==
    [period |-> 0, until |-> 0, bRemoveTask1 |-> FALSE, bTask1Removed |-> FALSE]

NoLast ==
    [op |-> "init", uid |-> "", ptr |-> NULL, outcome |-> "ok",
     fired |-> <<>>, polled |-> <<>>, reads |-> <<>>, error |-> "",
     overdue |-> FALSE, unit |-> "", arg |-> 0, reused |-> FALSE]

Running == last.outcome # "crash"

\* The addresses the entries of the map m own.
OwnedBy(m) == {m[k] : k \in DOMAIN m} \ {NULL}

----------------------------------------------------------------------------
(* Actions *)

Init ==
    /\ clock = 0
    /\ heap = [a \in Addrs |-> NoTask]
    /\ handles = [h \in Handles |-> NULL]
    /\ mAllTasks = <<>>
    /\ addOrder = <<>>
    /\ hist = [a \in Addrs |-> NoHist]
    /\ last = NoLast
    /\ loop = NoLoop

\* Time passes between two calls; the clock does not go back.
Tick(t) ==
    /\ Running
    /\ t > clock
    /\ clock' = t
    /\ last' = [NoLast EXCEPT !.op = "Tick"]
    /\ UNCHANGED <<heap, handles, mAllTasks, addOrder, hist, loop>>

\* h = std::make_unique<Task>(std::chrono::seconds(secs), fn): the new Task
\* is built at a free address, then the Task h held before is destroyed.
MakeTask(h, a, secs, fn) ==
    /\ Running
    /\ ~heap[a].live
    /\ heap' = [x \in Addrs |->
                  IF x = a THEN Task(secs, fn, clock)
                  ELSE IF x = handles[h] THEN NoTask
                  ELSE heap[x]]
    /\ handles' = [handles EXCEPT ![h] = a]
    /\ hist' = [x \in Addrs |->
                  IF x = a THEN [armedAt |-> clock, byCtor |-> TRUE, fires |-> 0,
                                 stamp |-> clock]
                  ELSE IF x = handles[h] THEN NoHist
                  ELSE hist[x]]
    /\ last' = [NoLast EXCEPT !.op = "Task", !.ptr = a, !.unit = "secs",
                              !.arg = secs, !.reads = <<clock>>]
    /\ UNCHANGED <<clock, mAllTasks, addOrder, loop>>

\* h->setIntervalSecs(n), h->setIntervalMillis(n), h->setIntervalNanos(n) or
\* h->setInterval(std::chrono::nanoseconds(n)).
SetIntervalCall(h, unit, n) ==
    /\ Running
    /\ handles[h] # NULL
    /\ LET a == handles[h]
       IN  /\ heap' = [heap EXCEPT ![a] =
                  CASE unit = "secs"   -> setIntervalSecs(@, n, clock)
                    [] unit = "millis" -> setIntervalMillis(@, n, clock)
                    [] unit = "nanos"  -> setIntervalNanos(@, n, clock)
                    [] unit = "chrono" -> setInterval(@, "chrono", n, clock)]
           /\ hist' = [hist EXCEPT ![a] =
                  [armedAt |-> clock, byCtor |-> FALSE, fires |-> 0,
                   stamp |-> clock]]
           /\ last' = [NoLast EXCEPT !.op = "setInterval", !.ptr = a,
                                     !.unit = unit, !.arg = n,
                                     !.reads = <<clock>>,
                                     !.overdue =
                                         heap[a].mNextExecStamp <= clock]
    /\ UNCHANGED <<clock, handles, mAllTasks, addOrder, loop>>

\* h->Update()
TaskUpdateCall(h) ==
    /\ Running
    /\ handles[h] # NULL
    /\ LET a == handles[h]
           r == TaskUpdate(heap[a], clock)
       IN  /\ hist[a].fires + r.invoked <= MaxFires
           /\ heap' = [heap EXCEPT ![a] = r.task]
           /\ hist' = [hist EXCEPT
                         ![a].fires = @ + r.invoked,
                         ![a].stamp = IF r.invoked = 1 THEN clock ELSE @]
           /\ last' = [NoLast EXCEPT
                         !.op = "Task::Update", !.ptr = a,
                         !.fired = IF r.invoked = 1 THEN <<a>> ELSE <<>>,
                         !.reads = <<clock>>,
                         !.outcome = IF r.error # "" THEN "raised" ELSE "ok",
                         !.error = r.error]
    /\ UNCHANGED <<clock, handles, mAllTasks, addOrder, loop>>

\* What the four Add overloads share: res is the overload's result.
AddDone(op, uid, h, res) ==
    /\ Cardinality(DOMAIN res.map) <= MaxEntries
    /\ mAllTasks' = res.map
    /\ handles' = [handles EXCEPT ![h] = res.tsk]
    /\ addOrder' = IF uid \in DOMAIN mAllTasks THEN addOrder
                   ELSE Append(addOrder, uid)
    /\ last' = [NoLast EXCEPT
                  !.op = op, !.uid = uid, !.ptr = handles[h],
                  !.outcome = IF uid \in DOMAIN mAllTasks
                              THEN "duplicate" ELSE "stored",
                  !.reused = /\ last.op = "Remove" /\ last.uid = uid
                             /\ last.outcome = "erased"]
    /\ hist' = [x \in Addrs |->
                  IF x = handles[h] /\ res.tsk = NULL THEN NoHist ELSE hist[x]]
    /\ UNCHANGED <<clock, heap, loop>>

\* mgr.Add(uid, h)
AddKeyed(uid, h) ==
    /\ Running
    /\ AddDone("Add(uid)", uid, h, Add_uid_ref(mAllTasks, uid, handles[h]))

\* mgr.Add(uid, std::move(h))
AddKeyedMove(uid, h) ==
    /\ Running
    /\ AddDone("Add(uid)", uid, h, Add_uid_rref(mAllTasks, uid, handles[h]))

\* mgr.Add(h)
AddAuto(h) ==
    /\ Running
    /\ AddDone("Add", to_string(handles[h]), h, Add_ref(mAllTasks, handles[h]))

\* mgr.Add(std::move(h))
AddAutoMove(h) ==
    /\ Running
    /\ AddDone("Add", to_string(handles[h]), h, Add_rref(mAllTasks, handles[h]))

\* mgr.Remove(uid): the erased entry's unique_ptr destroys its Task.
RemoveCall(uid) ==
    /\ Running
    /\ LET present == uid \in DOMAIN mAllTasks
           p == IF present THEN mAllTasks[uid] ELSE NULL
       IN  /\ mAllTasks' = Remove(mAllTasks, uid)
           /\ heap' = [x \in Addrs |->
                         IF x \in OwnedBy(mAllTasks) \ OwnedBy(mAllTasks')
                         THEN NoTask ELSE heap[x]]
           /\ hist' = [x \in Addrs |-> IF heap'[x].live THEN hist[x] ELSE NoHist]
           /\ addOrder' = SelectSeq(addOrder, LAMBDA k : k \in DOMAIN mAllTasks')
           /\ last' = [NoLast EXCEPT
                         !.op = "Remove", !.uid = uid, !.ptr = p,
                         !.outcome = IF present THEN "erased" ELSE "absent",
                         !.overdue = /\ p # NULL
                                     /\ heap[p].mNextExecStamp <= clock]
    /\ UNCHANGED <<clock, handles, loop>>

\* mgr.Update()
UpdateCall(order, reads) ==
    /\ Running
    /\ LET r == Update(mAllTasks, order, reads, heap)
       IN  /\ heap' = r.heap
           /\ clock' = IF r.polled = <<>> THEN clock ELSE reads[Len(r.polled)]
           /\ last' = [NoLast EXCEPT
                         !.op = "Update", !.fired = r.fired, !.polled = r.polled,
                         !.reads = reads, !.outcome = r.outcome,
                         !.error = r.error]
    /\ UNCHANGED <<handles, mAllTasks, addOrder, hist, loop>>

\* A caller that drives a TaskManager.
Next ==
    \/ \E t \in SweepReadings : Tick(t)
    \/ \E h \in Handles, a \in Addrs, secs \in IntervalArgs("secs"),
          fn \in Callables : MakeTask(h, a, secs, fn)
    \/ \E h \in Handles, secs \in IntervalArgs("secs") :
          SetIntervalCall(h, "secs", secs)
    \/ \E h \in Handles : TaskUpdateCall(h)
    \/ \E uid \in UserKeys, h \in Handles : AddKeyed(uid, h)
    \/ \E uid \in UserKeys, h \in Handles : AddKeyedMove(uid, h)
    \/ \E h \in Handles : AddAuto(h)
    \/ \E h \in Handles : AddAutoMove(h)
    \/ \E uid \in AllKeys : RemoveCall(uid)
    \/ \E order \in Orders(DOMAIN mAllTasks) :
          \E reads \in ReadsFrom(clock, Len(order)) : UpdateCall(order, reads)

Spec == Init /\ [][Next]_vars

\* A caller that holds one Task and polls it itself.
NextTask ==
    \/ \E t \in ClockReadings : Tick(t)
    \/ \E a \in Addrs, secs \in IntervalArgs("secs"), fn \in Callables :
          MakeTask("tsk1", a, secs, fn)
    \/ \E unit \in Units :
          \E n \in IntervalArgs(unit) : SetIntervalCall("tsk1", unit, n)
    \/ TaskUpdateCall("tsk1")

SpecTask == Init /\ [][NextTask]_vars

----------------------------------------------------------------------------
(* Task::Update on any Task object *)

\* What mNextExecStamp and mNanoInterval may hold: they have no initializer,
\* so before the first setInterval they hold whatever the storage held.
StampValues == {0, 1, 3}
IntervalValues == {-1, 0, 1, 2}

\* The Task objects Task::Update is applied to.  mHasSetInterval is false
\* from line 42 of the constructor until setInterval has run; no member
\* function sets it back to false.
TaskObjects ==
    [live : {TRUE}, mHasSetInterval : BOOLEAN, mTask : Callables,
     mNextExecStamp : StampValues, mNanoInterval : IntervalValues]

InitAnyTask ==
    /\ clock \in {0, 1, 2}
    /\ \E t \in TaskObjects : heap = [a \in Addrs |-> IF a = 1 THEN t ELSE NoTask]
    /\ handles = [h \in Handles |-> 1]
    /\ mAllTasks = <<>>
    /\ addOrder = <<>>
    /\ hist = [a \in Addrs |-> NoHist]
    /\ last = NoLast
    /\ loop = NoLoop

NextAnyTask ==
    \/ \E t \in ClockReadings : Tick(t)
    \/ TaskUpdateCall("tsk1")

SpecAnyTask == InitAnyTask /\ [][NextAnyTask]_vars

----------------------------------------------------------------------------
(* A registry polled for ever *)

\* The Task the constructor leaves at time 0, the interval given as the
\* count the duration_cast returns.
TaskOfCount(intervl, func) ==
    setIntervalChronoNanos(
        [live |-> TRUE, mHasSetInterval |-> FALSE, mTask |-> func,
         mNextExecStamp |-> 0, mNanoInterval |-> 0],
        intervl, 0)

\* The intervals of the registered Tasks and the steps the clock makes
\* between two calls.
LiveIntervals == {0, 1, 2, 3}
LiveSteps == {1, 2}

\* Two Tasks with callables that return were made at time 0 and added.
InitLive ==
    /\ clock = 0
    /\ \E i1, i2 \in LiveIntervals :
          heap = [a \in Addrs |->
                    TaskOfCount(IF a = 1 THEN i1 ELSE i2, "print")]
    /\ handles = [h \in Handles |-> NULL]
    /\ mAllTasks = [k \in UserKeys |-> IF k = "1Sec" THEN 1 ELSE 2]
    /\ addOrder = <<"1Sec", "1">>
    /\ hist = [a \in Addrs |-> [NoHist EXCEPT !.byCtor = TRUE]]
    /\ last = NoLast
    /\ loop = NoLoop

\* d nanoseconds pass.  The clock has no upper bound, so the state counts
\* time from the present reading: the clock stays 0 and every deadline comes
\* d nearer.  CanExecuteTask compares the deadline with the reading and adds
\* the interval to the reading, which is the same in both countings; a
\* deadline that has passed is kept at the reading, since all CanExecuteTask
\* does with it is find it not after the reading.
LiveTick(d) ==
    /\ Running
    /\ heap' = [a \in Addrs |->
                  [heap[a] EXCEPT !.mNextExecStamp =
                      IF @ - d < clock THEN clock ELSE @ - d]]
    /\ last' = [NoLast EXCEPT !.op = "Tick", !.arg = d]
    /\ UNCHANGED <<clock, handles, mAllTasks, addOrder, hist, loop>>

\* mgr.Update(), every Task::Update of the sweep reading the same instant.
LiveUpdate ==
    \E order \in Orders(DOMAIN mAllTasks) :
        UpdateCall(order, [i \in 1..Len(order) |-> clock])

NextLive ==
    \/ \E d \in LiveSteps : LiveTick(d)
    \/ LiveUpdate

\* The caller's loop calls mgr.Update() again and again, and time passes.
SpecLive ==
    /\ InitLive
    /\ [][NextLive]_vars
    /\ WF_vars(LiveUpdate)
    /\ WF_vars(\E d \in LiveSteps : LiveTick(d))

----------------------------------------------------------------------------
(* A registry polled by a loop with a fixed period *)

\* The nanosecond counts of an 11 second run do not fit the integers of the
\* model checker.  The Task only adds an interval to a clock reading and
\* compares two readings, so its behaviour is the same in every unit of
\* time: the polling loop counts time in units of 100 ms.
UnitsPerSec == 10

\* The callable of main's tsk4: it prints and sets bRemoveTask1.
SetsRemoveTask1(fn) == fn = "printAndSetRemoveTask1"

\* A Task of a loop: the key it is added under, its interval, its callable.
LoopTask(uid, secs10, fn) == [uid |-> uid, intervl |-> secs10, func |-> fn]

\* A loop: its Tasks in the order they are made and added, the polling
\* period and the end of the run.  The two runs of the specification's
\* scenarios, main's own four Tasks, and one Task of interval k * p polled
\* with period p.
Loops ==
    {[tasks |-> <<LoopTask("1Sec", UnitsPerSec, "print"),
                  LoopTask(to_string(2), 5 * UnitsPerSec, "print"),
                  LoopTask("10Sec", 10 * UnitsPerSec, "print")>>,
      period |-> UnitsPerSec, until |-> 11 * UnitsPerSec],
     [tasks |-> <<LoopTask("1Sec", UnitsPerSec, "print")>>,
      period |-> UnitsPerSec \div 10, until |-> (5 * UnitsPerSec) \div 2],
     [tasks |-> <<LoopTask("1Sec", UnitsPerSec, "print"),
                  LoopTask(to_string(2), 5 * UnitsPerSec, "print"),
                  LoopTask("10Sec", 10 * UnitsPerSec, "print"),
                  LoopTask(to_string(4), 15 * UnitsPerSec,
                           "printAndSetRemoveTask1")>>,
      period |-> UnitsPerSec, until |-> 17 * UnitsPerSec]}
        \cup {[tasks |-> <<LoopTask("1Sec", k * p, "print")>>,
               period |-> p, until |-> 3 * k * p + p] :
                 p \in 2..3, k \in 1..3}

\* main up to the loop: the Tasks are made at time 0 and added one by one,
\* bRemoveTask1 and bTask1Removed are false.
InitLoop ==
    \E l \in Loops :
        LET n == Len(l.tasks) IN
        /\ clock = 0
        /\ heap = [a \in 1..n |-> TaskOfCount(l.tasks[a].intervl, l.tasks[a].func)]
        /\ handles = [h \in Handles |-> NULL]
        /\ mAllTasks = [k \in {l.tasks[a].uid : a \in 1..n} |->
                          CHOOSE a \in 1..n : l.tasks[a].uid = k]
        /\ addOrder = [a \in 1..n |-> l.tasks[a].uid]
        /\ hist = [a \in 1..n |-> [NoHist EXCEPT !.byCtor = TRUE]]
        /\ last = NoLast
        /\ loop = [period |-> l.period, until |-> l.until,
                   bRemoveTask1 |-> FALSE, bTask1Removed |-> FALSE]

\* One turn of main's loop.  The period passes, then mgr.Update() runs, every
\* Task::Update of the sweep reading the poll instant from the clock; a
\* callable of tsk4's kind sets bRemoveTask1.  Then, when bRemoveTask1 is set
\* and bTask1Removed is not, mgr.Remove("1Sec") runs and bTask1Removed is
\* set.  An exception that leaves mgr.Update() leaves main.
PollCall(order) ==
    /\ Running
    /\ last.outcome # "raised"
    /\ clock + loop.period <= loop.until
    /\ LET now == clock + loop.period
           r == Update(mAllTasks, order, [i \in 1..Len(order) |-> now], heap)
           flag == \/ loop.bRemoveTask1
                   \/ \E i \in 1..Len(r.fired) :
                         SetsRemoveTask1(heap[r.fired[i]].mTask)
           removes == r.outcome = "ok" /\ ~loop.bTask1Removed /\ flag
           m == IF removes THEN Remove(mAllTasks, "1Sec") ELSE mAllTasks
       IN  /\ clock' = now
           /\ mAllTasks' = m
           /\ heap' = [a \in DOMAIN heap |->
                         IF a \in OwnedBy(mAllTasks) \ OwnedBy(m)
                         THEN NoTask ELSE r.heap[a]]
           /\ addOrder' = SelectSeq(addOrder, LAMBDA k : k \in DOMAIN m)
           /\ hist' = [a \in DOMAIN hist |->
                         IF \E i \in 1..Len(r.fired) : r.fired[i] = a
                         THEN [hist[a] EXCEPT !.fires = @ + 1, !.stamp = now]
                         ELSE hist[a]]
           /\ last' = [NoLast EXCEPT
                         !.op = "Update", !.fired = r.fired, !.polled = r.polled,
                         !.reads = [i \in 1..Len(order) |-> now],
                         !.outcome = r.outcome, !.error = r.error]
           /\ loop' = [loop EXCEPT
                         !.bRemoveTask1 = flag,
                         !.bTask1Removed = @ \/ removes]
    /\ UNCHANGED handles

NextLoop ==
    \E order \in Orders(DOMAIN mAllTasks) : PollCall(order)

SpecLoop == InitLoop /\ [][NextLoop]_vars

----------------------------------------------------------------------------
(* Properties of one Task (SpecTask) *)

\* The step is a call of Task::Update on the Task at address a.
IsTaskUpdate(a) == last'.op = "Task::Update" /\ last'.ptr = a

\* C1: a Task constructed at t0 with interval I and not re-armed since is not
\* invoked by any Update made while the clock reads less than t0 + I, and is
\* invoked exactly once by the first Update made at t0 + I or later.
C1_FireTiming ==
    [][\A a \in Addrs :
        (IsTaskUpdate(a) /\ hist[a].byCtor) =>
            LET t0 == hist[a].armedAt
                I == heap[a].mNanoInterval
            IN  /\ clock < t0 + I =>
                    /\ hist[a].fires = 0
                    /\ last'.fired = <<>>
                    /\ heap'[a] = heap[a]
                /\ (clock >= t0 + I /\ hist[a].fires = 0) =>
                    last'.fired = <<a>>]_vars

\* C1 witness: a Task built at 0 with a one second interval has just fired
\* for the first time, polled exactly at its deadline.
C1_Witness ==
    \E a \in Addrs :
        /\ last.op = "Task::Update" /\ last.ptr = a /\ last.fired = <<a>>
        /\ hist[a].byCtor /\ hist[a].fires = 1
        /\ heap[a].mNanoInterval = NanosPerSec
        /\ clock = hist[a].armedAt + heap[a].mNanoInterval

\* C2: one Task::Update invokes the callable at most once; an Update that
\* finds the deadline passed, however long ago, invokes it exactly once and
\* sets the next deadline to the clock reading of that Update plus the
\* interval; an Update before the deadline invokes nothing.
C2_NonAccumulation ==
    [][\A a \in Addrs :
        IsTaskUpdate(a) =>
            /\ Len(last'.fired) <= 1
            /\ heap[a].mNextExecStamp <= clock =>
                /\ last'.fired = <<a>>
                /\ heap'[a].mNextExecStamp = clock + heap[a].mNanoInterval
            /\ heap[a].mNextExecStamp > clock =>
                /\ last'.fired = <<>>
                /\ heap'[a] = heap[a]]_vars

\* C2 witness: a Task with a positive interval was polled two or more
\* intervals after it was armed, and fired once.
C2_Witness ==
    \E a \in Addrs :
        /\ last.op = "Task::Update" /\ last.ptr = a /\ last.fired = <<a>>
        /\ hist[a].fires = 1
        /\ heap[a].mNanoInterval > 0
        /\ clock >= hist[a].armedAt + 2 * heap[a].mNanoInterval
        /\ heap[a].mNextExecStamp = clock + heap[a].mNanoInterval

\* The nanoseconds in n units of a duration type.
InNanos(unit, n) ==
    CASE unit = "secs"   -> n * 1000 * 1000 * 1000
      [] unit = "millis" -> n * 1000 * 1000
      [] unit = "nanos"  -> n
      [] unit = "chrono" -> n

\* C3: a setInterval call at clock time t with new interval J sets the next
\* deadline to t + J and invokes nothing, and no Update made before t + J
\* invokes the callable, also when the old deadline had passed.
C3_ReArm ==
    [][\A a \in Addrs :
        /\ (last'.op = "setInterval" /\ last'.ptr = a) =>
            /\ heap'[a].mNanoInterval = InNanos(last'.unit, last'.arg)
            /\ heap'[a].mNextExecStamp = clock + InNanos(last'.unit, last'.arg)
            /\ heap'[a].mHasSetInterval
            /\ last'.fired = <<>>
            /\ hist'[a].armedAt = clock /\ hist'[a].fires = 0
        /\ (IsTaskUpdate(a) /\ last'.fired # <<>>) =>
            clock >= hist[a].armedAt + heap[a].mNanoInterval]_vars

\* C3 witness: setInterval has just given a Task that was overdue a positive
\* interval, so its new deadline lies ahead.
C3_Witness ==
    \E a \in Addrs :
        /\ last.op = "setInterval" /\ last.ptr = a /\ last.overdue
        /\ clock > 0
        /\ heap[a].mNanoInterval > 0
        /\ heap[a].mNextExecStamp = clock + heap[a].mNanoInterval

----------------------------------------------------------------------------
(* Properties of the TaskManager (Spec) *)

\* The elements of a sequence.
Range(q) == {q[i] : i \in 1..Len(q)}

\* How often x occurs in the sequence q.
Count(x, q) == Cardinality({i \in 1..Len(q) : q[i] = x})

\* The clock reading the Task under key k was polled at in the Update call
\* this step makes (the reading at the end of the call when it was not polled).
PollTime(k) ==
    IF k \in Range(last'.polled)
    THEN last'.reads[CHOOSE i \in 1..Len(last'.polled) : last'.polled[i] = k]
    ELSE clock'

\* The Task at address a is armed and its deadline is not after now.
Due(a, now) ==
    heap[a].mHasSetInterval /\ heap[a].mNextExecStamp <= now

\* The sequence p is an initial part of the sequence q.
IsPrefix(p, q) ==
    Len(p) <= Len(q) /\ \A i \in 1..Len(p) : p[i] = q[i]

\* C4: one TaskManager::Update call in which no callable raises invokes the
\* callable of every owned Task that is due exactly once and of no owned Task
\* that is not due, and leaves the key set unchanged.
C4_FanOut ==
    [][(last'.op = "Update" /\ last'.outcome # "raised") =>
        /\ DOMAIN mAllTasks' = DOMAIN mAllTasks
        /\ \A k \in DOMAIN mAllTasks :
            LET a == mAllTasks[k] IN
            a # NULL =>
                /\ Due(a, PollTime(k)) => Count(a, last'.fired) = 1
                /\ ~Due(a, PollTime(k)) => Count(a, last'.fired) = 0]_vars

\* C5: Add(key, task) with a key that is present changes nothing: the map,
\* the Task objects and the caller's handle, which still holds its Task.
C5_DuplicateAdd ==
    [][(last'.op = "Add(uid)" /\ last'.uid \in DOMAIN mAllTasks) =>
        /\ mAllTasks' = mAllTasks
        /\ heap' = heap
        /\ handles' = handles
        /\ last'.outcome = "duplicate"]_vars

\* C5 witness: an Add of a live Task under a key whose entry holds another
\* live Task has just been rejected; the caller still holds the Task.
C5_Witness ==
    /\ last.op = "Add(uid)" /\ last.outcome = "duplicate"
    /\ last.ptr # NULL /\ heap[last.ptr].live
    /\ \E h \in Handles : handles[h] = last.ptr
    /\ last.uid \in DOMAIN mAllTasks
    /\ mAllTasks[last.uid] \notin {NULL, last.ptr}
    /\ heap[mAllTasks[last.uid]].live

\* C6: Remove(key) with a key that is not present reports nothing and changes
\* nothing, and after any Remove(key) the key is not present, so a second
\* Remove(key) is such a call.
C6_RemoveAbsent ==
    [][last'.op = "Remove" =>
        /\ last'.uid \notin DOMAIN mAllTasks'
        /\ last'.outcome \in {"erased", "absent"}
        /\ last'.uid \notin DOMAIN mAllTasks =>
            /\ mAllTasks' = mAllTasks
            /\ heap' = heap
            /\ handles' = handles
            /\ clock' = clock]_vars

\* C6 witness: Remove of an absent key has just returned, the registry
\* holding a live Task.
C6_Witness ==
    /\ last.op = "Remove" /\ last.outcome = "absent"
    /\ \E k \in DOMAIN mAllTasks :
        mAllTasks[k] # NULL /\ heap[mAllTasks[k]].live

\* C7: Remove(key) of a present key erases the entry and destroys its Task,
\* whatever its deadline, and leaves every other entry and its Task as they
\* were; an Update invokes only callables of live Tasks the registry owns, so
\* never the one of a removed Task.
C7_RemovedNeverFires ==
    [][/\ (last'.op = "Remove" /\ last'.uid \in DOMAIN mAllTasks) =>
            /\ DOMAIN mAllTasks' = DOMAIN mAllTasks \ {last'.uid}
            /\ mAllTasks[last'.uid] # NULL =>
                /\ ~heap'[mAllTasks[last'.uid]].live
                /\ mAllTasks[last'.uid] \notin OwnedBy(mAllTasks')
            /\ \A k \in DOMAIN mAllTasks \ {last'.uid} :
                /\ mAllTasks'[k] = mAllTasks[k]
                /\ mAllTasks[k] # NULL =>
                    heap'[mAllTasks[k]] = heap[mAllTasks[k]]
       /\ last'.op = "Update" =>
            \A a \in Range(last'.fired) :
                heap[a].live /\ a \in OwnedBy(mAllTasks)]_vars

\* C7 witness: a Task whose deadline had passed has just been removed, and
\* the registry still owns another Task, which is due.
C7_Witness ==
    /\ last.op = "Remove" /\ last.outcome = "erased" /\ last.overdue
    /\ ~heap[last.ptr].live
    /\ \E k \in DOMAIN mAllTasks :
        /\ mAllTasks[k] # NULL
        /\ heap[mAllTasks[k]].mNextExecStamp <= clock

\* Every entry of the registry holds a Task.
NoEmptyEntry == \A k \in DOMAIN mAllTasks : mAllTasks[k] # NULL

\* C8: TaskManager::Update polls the entries in the order they were added
\* (stated for a registry whose entries all hold Tasks).
C8_InsertionOrder ==
    [][(last'.op = "Update" /\ NoEmptyEntry) =>
        IsPrefix(last'.polled, addOrder)]_vars

\* C9: a keyless Add of a live Task the registry does not own is never
\* rejected as a duplicate: it stores the Task under its derived key
\* (stated for a registry whose entries all hold Tasks).
C9_KeylessAddStores ==
    [][(last'.op = "Add" /\ last'.ptr # NULL /\ NoEmptyEntry) =>
        /\ last'.outcome = "stored"
        /\ last'.uid \in DOMAIN mAllTasks'
        /\ mAllTasks'[last'.uid] = last'.ptr]_vars

\* C10: when a callable raises during TaskManager::Update, the caller gets
\* that exception, the raising Task is the last one polled and the last one
\* fired, and no entry that was not yet polled is polled or changed.
C10_RaiseStopsSweep ==
    [][(last'.op = "Update" /\ last'.outcome = "raised") =>
        LET n == Len(last'.polled)
            f == Len(last'.fired)
        IN  /\ n > 0 /\ f > 0
            /\ mAllTasks[last'.polled[n]] = last'.fired[f]
            /\ last'.error = Raises(heap[last'.fired[f]].mTask)
            /\ last'.error # ""
            /\ \A i \in 1..(f - 1) : Raises(heap[last'.fired[i]].mTask) = ""
            /\ \A k \in DOMAIN mAllTasks \ Range(last'.polled) :
                mAllTasks[k] # NULL =>
                    /\ heap'[mAllTasks[k]] = heap[mAllTasks[k]]
                    /\ mAllTasks[k] \notin Range(last'.fired)]_vars

\* C10 witness: a sweep has just ended with an exception, and an entry it did
\* not reach holds a Task that is due.
C10_Witness ==
    /\ last.op = "Update" /\ last.outcome = "raised" /\ last.error = "boom"
    /\ \E k \in DOMAIN mAllTasks \ Range(last.polled) :
        /\ mAllTasks[k] # NULL
        /\ heap[mAllTasks[k]].mNextExecStamp <= clock

----------------------------------------------------------------------------
(* Ownership (Spec) *)

\* The caller's handles and the registry's keys that hold address a.
OwnersOf(a) ==
    {<<"handle", h>> : h \in {x \in Handles : handles[x] = a}}
        \cup {<<"entry", k>> : k \in {x \in DOMAIN mAllTasks : mAllTasks[x] = a}}

\* Every Task has exactly one owner, and no owner holds a destroyed Task.
OneOwner ==
    \A a \in Addrs :
        Cardinality(OwnersOf(a)) = IF heap[a].live THEN 1 ELSE 0

\* C11: in every state each Task is held by exactly one caller handle or
\* exactly one registry entry, and an Add that stores a Task empties the
\* caller's handle and puts the Task under the key.
C11_ExclusiveOwner ==
    /\ OneOwner
    /\ [][/\ OneOwner'
          /\ \A h \in Handles :
                (last'.op \in {"Add", "Add(uid)"} /\ last'.outcome = "stored"
                    /\ handles[h] # NULL) =>
                    /\ handles'[h] = NULL
                    /\ mAllTasks'[last'.uid] = handles[h]
                    /\ heap'[handles[h]] = heap[handles[h]]]_vars

\* C11 witness: an Add has just moved a live Task from the caller's handle
\* into the registry, which already owned another Task.
C11_Witness ==
    /\ last.op \in {"Add", "Add(uid)"} /\ last.outcome = "stored"
    /\ last.ptr # NULL /\ heap[last.ptr].live
    /\ \A h \in Handles : handles[h] = NULL
    /\ mAllTasks[last.uid] = last.ptr
    /\ Cardinality(OwnedBy(mAllTasks)) = 2

----------------------------------------------------------------------------
(* A registry polled with a fixed period (SpecLoop) *)

\* How often each Task has fired so far, by address.
FiresSoFar == [a \in DOMAIN hist |-> hist[a].fires]

\* Every Task has fired once per multiple of its interval up to now, and its
\* deadline is the next multiple.
FiredAtMultiples ==
    \A a \in DOMAIN heap :
        heap[a].live =>
            /\ hist[a].fires = clock \div heap[a].mNanoInterval
            /\ heap[a].mNextExecStamp =
                  (hist[a].fires + 1) * heap[a].mNanoInterval

\* C12: Tasks made at time 0 and polled at every multiple of a period that
\* divides their intervals fire at the multiples of their interval and at no
\* other poll; the 1 s / 5 s / 10 s Tasks polled each second for 11 s have
\* fired 11, 2 and 1 times, the 1 s Task polled each 100 ms for 2.5 s twice.
C12_FixedPeriodPolling ==
    /\ FiredAtMultiples
    /\ [][/\ FiredAtMultiples'
          /\ \A a \in DOMAIN heap :
                Count(a, last'.fired) =
                    IF heap[a].live /\ clock' % heap[a].mNanoInterval = 0
                    THEN 1 ELSE 0
          /\ (clock' = loop.until /\ loop.period = UnitsPerSec
                /\ loop.until = 11 * UnitsPerSec) =>
                FiresSoFar' = <<11, 2, 1>>
          /\ (clock' = loop.until /\ loop.period = UnitsPerSec \div 10
                /\ loop.until = (5 * UnitsPerSec) \div 2) =>
                FiresSoFar' = <<2>>
          /\ (clock' = loop.until /\ loop.until = 17 * UnitsPerSec) =>
                /\ FiresSoFar' = <<15, 3, 1, 1>>
                /\ DOMAIN mAllTasks' = {to_string(2), "10Sec", to_string(4)}]_vars

\* C12 witness: the 11 second run is over, its last sweep fired the 1 s Task
\* alone, and the counts are 11, 2 and 1.
C12_Witness ==
    /\ loop.period = UnitsPerSec /\ loop.until = 11 * UnitsPerSec
    /\ clock = loop.until
    /\ last.op = "Update" /\ last.fired = <<1>> /\ Len(last.polled) = 3
    /\ FiresSoFar = <<11, 2, 1>>

----------------------------------------------------------------------------
(* Task::Update on any Task object (SpecAnyTask) *)

\* C13: a Task::Update on a Task whose mHasSetInterval is false does not
\* invoke the callable and leaves the Task as it was, deadline included,
\* whatever the clock reads.
C13_DisarmedNeverFires ==
    [][\A a \in Addrs :
          (IsTaskUpdate(a) /\ ~heap[a].mHasSetInterval) =>
              /\ last'.fired = <<>>
              /\ last'.outcome = "ok"
              /\ heap'[a] = heap[a]
              /\ hist'[a].fires = 0]_vars

\* C13 witness: Task::Update has just returned on a disarmed Task whose
\* stored deadline is not after the clock reading; nothing has fired.
C13_Witness ==
    /\ last.op = "Task::Update" /\ last.ptr # NULL
    /\ ~heap[last.ptr].mHasSetInterval
    /\ heap[last.ptr].mNextExecStamp < clock
    /\ clock = NanosPerSec
    /\ last.fired = <<>>

----------------------------------------------------------------------------
(* More properties of one Task (SpecTask) *)

\* C14: every Task::Update on an armed Task of interval zero invokes the
\* callable, also when the clock still reads what it read at the
\* construction, at the setInterval call or at the previous fire.
C14_ZeroIntervalFires ==
    [][\A a \in Addrs :
          (IsTaskUpdate(a) /\ heap[a].mHasSetInterval
              /\ heap[a].mNanoInterval = 0) =>
              /\ last'.fired = <<a>>
              /\ hist'[a].fires = hist[a].fires + 1
              /\ heap'[a].mNextExecStamp = clock
              /\ heap'[a].mNanoInterval = 0]_vars

\* C14 witness: a Task given interval zero by setInterval has fired twice
\* while the clock still reads what it read at that call.
C14_Witness ==
    /\ last.op = "Task::Update" /\ last.ptr # NULL
    /\ last.fired = <<last.ptr>>
    /\ heap[last.ptr].mNanoInterval = 0
    /\ ~hist[last.ptr].byCtor
    /\ hist[last.ptr].armedAt = clock
    /\ hist[last.ptr].fires = 2


\* The deadline of every armed Task a caller holds is the clock reading of
\* its last computation plus the interval the Task has now.
DeadlineFromStamp ==
    \A h \in Handles :
        LET a == handles[h] IN
        (a # NULL /\ heap[a].mHasSetInterval) =>
            /\ hist[a].stamp <= clock
            /\ heap[a].mNextExecStamp = hist[a].stamp + heap[a].mNanoInterval
            /\ heap[a].mNanoInterval >= 0 =>
                   heap[a].mNextExecStamp >= hist[a].stamp

\* C15: an armed Task's deadline is the clock reading at its last
\* computation plus its current interval, so not before that reading when
\* the interval is not negative; only a setInterval call and an Update that
\* fires change the deadline of a Task, and an Update on a Task that is not
\* yet due changes nothing of any Task.
C15_DeadlineInvariant ==
    /\ DeadlineFromStamp
    /\ [][/\ DeadlineFromStamp'
          /\ \A a \in Addrs :
                (heap[a].live /\ heap'[a].live
                    /\ heap'[a].mNextExecStamp # heap[a].mNextExecStamp) =>
                    /\ last'.ptr = a
                    /\ \/ last'.op = "setInterval"
                       \/ last'.op = "Task::Update" /\ last'.fired = <<a>>
                    /\ heap'[a].mNextExecStamp = clock + heap'[a].mNanoInterval
          /\ \A a \in Addrs :
                (IsTaskUpdate(a) /\ heap[a].mNextExecStamp > clock) =>
                    /\ last'.fired = <<>>
                    /\ heap' = heap]_vars

\* C15 witness: an Update that came after the deadline has fired a Task of
\* positive interval and left its deadline one interval after this reading.
C15_Witness ==
    /\ last.op = "Task::Update" /\ last.ptr # NULL
    /\ last.fired = <<last.ptr>>
    /\ heap[last.ptr].mNanoInterval > 0
    /\ hist[last.ptr].stamp = clock
    /\ clock > hist[last.ptr].armedAt + heap[last.ptr].mNanoInterval
    /\ heap[last.ptr].mNextExecStamp = clock + heap[last.ptr].mNanoInterval

----------------------------------------------------------------------------
(* More properties of the TaskManager (Spec) *)

\* C16: Remove(key) of a present key leaves the key absent; an Add(key, t)
\* that follows it stores t under the key with t's interval and deadline as
\* they were; and an Update polls under each key the Task the entry holds
\* now, firing it by its own deadline and moving that deadline by its own
\* interval, and fires no Task the registry does not own.
C16_KeyReuse ==
    [][/\ (last'.op = "Remove" /\ last'.outcome = "erased") =>
            last'.uid \notin DOMAIN mAllTasks'
       /\ (last.op = "Remove" /\ last.outcome = "erased"
              /\ last'.op \in {"Add", "Add(uid)"} /\ last'.uid = last.uid) =>
            /\ last'.outcome = "stored" /\ last'.reused
            /\ mAllTasks' = Insert(mAllTasks, last'.uid, last'.ptr)
            /\ heap' = heap
            /\ \A h \in Handles : handles'[h] = NULL
       /\ last'.op = "Update" =>
            /\ Range(last'.fired) \subseteq OwnedBy(mAllTasks)
            /\ \A k \in Range(last'.polled) :
                  LET a == mAllTasks[k] IN
                  a # NULL =>
                      IF Due(a, PollTime(k))
                      THEN /\ Count(a, last'.fired) = 1
                           /\ heap'[a] =
                                 [heap[a] EXCEPT !.mNextExecStamp =
                                     PollTime(k) + heap[a].mNanoInterval]
                      ELSE /\ Count(a, last'.fired) = 0
                           /\ heap'[a] = heap[a]]_vars

\* C16 witness: the Add that follows the Remove of its key has stored a live
\* Task under the key, beside another entry that stayed.
C16_Witness ==
    /\ last.op = "Add(uid)" /\ last.reused /\ last.outcome = "stored"
    /\ last.ptr # NULL /\ heap[last.ptr].live
    /\ heap[last.ptr].mNanoInterval > 0
    /\ mAllTasks[last.uid] = last.ptr
    /\ Cardinality(DOMAIN mAllTasks) = 2


\* C17: every entry of the registry holds a live Task, whatever Add, Remove
\* and Update calls were made, so TaskManager::Update never polls an empty
\* unique_ptr.
C17_EntriesHoldTasks ==
    /\ \A k \in DOMAIN mAllTasks :
          mAllTasks[k] # NULL /\ heap[mAllTasks[k]].live
    /\ last.outcome # "crash"

----------------------------------------------------------------------------
(* Raising callables and the spacing of fires (SpecTask) *)

\* C18: a Task::Update whose callable raises has moved the deadline to the
\* clock reading plus the interval all the same, and an Update on a Task
\* with a raising callable made before the last fire's reading plus the
\* interval does not invoke the callable again.
C18_RaiseStillReschedules ==
    [][\A a \in Addrs :
          IsTaskUpdate(a) =>
              /\ last'.outcome = "raised" =>
                    /\ last'.fired = <<a>>
                    /\ hist'[a].fires = hist[a].fires + 1
                    /\ heap'[a] =
                          [heap[a] EXCEPT !.mNextExecStamp =
                              clock + heap[a].mNanoInterval]
              /\ (Raises(heap[a].mTask) # "" /\ hist[a].fires > 0
                     /\ clock < hist[a].stamp + heap[a].mNanoInterval) =>
                    /\ last'.fired = <<>>
                    /\ last'.outcome = "ok"
                    /\ heap'[a] = heap[a]]_vars

\* C18 witness: a Task whose callable raised at its only fire has been
\* polled again, later but before the new deadline, and was not invoked.
C18_Witness ==
    /\ last.op = "Task::Update" /\ last.ptr # NULL
    /\ last.fired = <<>>
    /\ Raises(heap[last.ptr].mTask) # ""
    /\ hist[last.ptr].fires = 1
    /\ clock > hist[last.ptr].stamp
    /\ heap[last.ptr].mNextExecStamp =
          hist[last.ptr].stamp + heap[last.ptr].mNanoInterval


\* A Task a caller holds whose interval I is positive has fired at most
\* floor(D / I) times, D being the time since it was armed.
FiresWithinWindow ==
    \A h \in Handles :
        LET a == handles[h] IN
        (a # NULL /\ heap[a].mHasSetInterval /\ heap[a].mNanoInterval > 0) =>
            hist[a].fires <= (clock - hist[a].armedAt) \div heap[a].mNanoInterval

\* C19: a fire of a Task is at least one interval after its previous fire,
\* or after its arming when it is the first; with a positive interval I the
\* k-th fire since the arming at t0 is not before t0 + k * I, and the Task
\* has fired at most floor(D / I) times when D has passed since t0.
C19_FireSpacing ==
    /\ FiresWithinWindow
    /\ [][/\ FiresWithinWindow'
          /\ \A a \in Addrs :
                (IsTaskUpdate(a) /\ last'.fired = <<a>>) =>
                    /\ clock >= hist[a].stamp + heap[a].mNanoInterval
                    /\ hist[a].fires = 0 => hist[a].stamp = hist[a].armedAt
                    /\ heap[a].mNanoInterval > 0 =>
                          clock >= hist[a].armedAt
                                     + (hist[a].fires + 1) * heap[a].mNanoInterval]_vars

\* C19 witness: a Task of positive interval has fired for the second time,
\* polled late: more than two intervals after its arming.
C19_Witness ==
    /\ last.op = "Task::Update" /\ last.ptr # NULL
    /\ last.fired = <<last.ptr>>
    /\ heap[last.ptr].mNanoInterval > 0
    /\ hist[last.ptr].byCtor = FALSE
    /\ hist[last.ptr].fires = 2
    /\ clock > hist[last.ptr].armedAt + 2 * heap[last.ptr].mNanoInterval

----------------------------------------------------------------------------
(* Progress (SpecLive) *)

\* C20: when TaskManager::Update is called again and again while time
\* passes, no callable raises and the Tasks stay registered with their
\* intervals, every registered Task is invoked, and invoked again and again.
C20_FiresInfinitelyOften ==
    \A a \in Addrs :
        []<>(last.op = "Update" /\ a \in Range(last.fired))

\* C20 witness: a sweep has fired the Task of the longest interval alone,
\* the other Task having fired in an earlier sweep and not being due again.
C20_Witness ==
    /\ last.op = "Update" /\ last.fired = <<2>> /\ Len(last.polled) = 2
    /\ heap[2].mNanoInterval = 3
    /\ heap[1].mNanoInterval = 2
    /\ heap[1].mNextExecStamp = 1

====
